---------------------------- MODULE Spec2Model ----------------------------
(***************************************************************************)
(* Read path of the TiKV store backend                                     *)
(* (crates/store/src/backend/tikv/read.rs): range iteration, chunked value *)
(* reassembly and bitmap aggregation over a transactional key-value        *)
(* backend.                                                                *)
(*                                                                         *)
(* Keys and values are byte strings: sequences of integers in 0..255.      *)
(* The backend is a finite map from keys to values; keys are ordered by    *)
(* byte-lexicographic order.  Every backend round trip (an .await in the   *)
(* source) and every invocation of the caller's callback is one step.      *)
(***************************************************************************)
EXTENDS Integers, Sequences, FiniteSets, TLC

VARIABLES
    store,      \* committed backend state: function from present keys to values
    snap,       \* view of the snapshot opened by snapshot_trx
    pc,         \* position of the running read operation
    params,     \* arguments of the running operation
    values,     \* iterate: entries returned by the scan, not yet consumed
    calls,      \* iterate: <<key, value>> arguments of each callback invocation
    rets,       \* iterate: what each callback invocation returned
    ckey,       \* reassembly: current chunk key
    cbuf,       \* reassembly: accumulated bytes
    gets,       \* reassembly: keys fetched so far, in order
    chunked,    \* reassembly: the ChunkedValue read_chunked_value returned
    bm,         \* get_bitmap: the bitmap being aggregated
    io,         \* backend calls the operation issued, in order
    result      \* outcome of the operation

vars == <<store, snap, pc, params, values, calls, rets, ckey, cbuf, gets, chunked,
          bm, io, result>>

\* Locals of iterate, of the chunk reassembly and of get_bitmap.
iterVars == <<values, calls, rets>>
chunkVars == <<ckey, cbuf, gets, chunked>>

----------------------------------------------------------------------------
(* Byte strings *)

Byte == 0..255

Min(a, b) == IF a <= b THEN a ELSE b

\* Byte-lexicographic order of keys, the order of the backend's key space.
KeyLess(a, b) ==
    \E i \in 1..(Len(a) + 1) :
        /\ \A j \in 1..(i - 1) : j <= Len(b) /\ a[j] = b[j]
        /\ \/ i = Len(a) + 1 /\ Len(b) >= i
           \/ i <= Len(a) /\ i <= Len(b) /\ a[i] < b[i]

KeyLeq(a, b) == a = b \/ KeyLess(a, b)

\* The smallest key of a non-empty finite set of keys.
MinKey(S) == CHOOSE k \in S : \A o \in S : KeyLeq(k, o)

RECURSIVE SortAsc(_)
SortAsc(S) ==
    IF S = {} THEN <<>>
    ELSE LET k == MinKey(S) IN <<k>> \o SortAsc(S \ {k})

Reverse(s) == [i \in 1..Len(s) |-> s[Len(s) + 1 - i]]

Range(s) == {s[i] : i \in 1..Len(s)}

\* Keys of a backend view.
Present(ss) == DOMAIN ss

NoStore == [k \in {} |-> <<>>]

Put(ss, k, v) == [x \in (DOMAIN ss) \cup {k} |-> IF x = k THEN v ELSE ss[x]]

Del(ss, k) == [x \in (DOMAIN ss) \ {k} |-> ss[x]]

----------------------------------------------------------------------------
(* Backend client: get, scan, scan_reverse, scan_keys on a snapshot *)

\* A u32 as its two 16-bit halves: the value is hi * 65536 + lo.
U32(n) == [hi |-> n \div 65536, lo |-> n % 65536]

\* u32::MAX
U32_MAX == [hi |-> 65535, lo |-> 65535]

\* n <= limit, for a length n and a u32 limit.
WithinLimit(n, limit) ==
    \/ n \div 65536 < limit.hi
    \/ n \div 65536 = limit.hi /\ n % 65536 <= limit.lo

\* The first `limit` elements of s.
Limit(s, limit) ==
    IF WithinLimit(Len(s), limit) THEN s
    ELSE SubSeq(s, 1, limit.hi * 65536 + limit.lo)

\* Keys of the view inside the half-open range [begin, end).
InRange(ss, begin, end) ==
    {k \in Present(ss) : KeyLeq(begin, k) /\ KeyLess(k, end)}

\* scan_keys((begin, end), limit): the first `limit` keys of the range, ascending.
scan_keys(ss, begin, end, limit) ==
    Limit(SortAsc(InRange(ss, begin, end)), limit)

\* scan((begin, end), limit): the first `limit` entries of the range, ascending.
scan(ss, begin, end, limit) ==
    LET ks == scan_keys(ss, begin, end, limit)
    IN  [i \in 1..Len(ks) |-> [key |-> ks[i], value |-> ss[ks[i]]]]

\* scan_reverse((begin, end), limit): the last `limit` entries, descending.
scan_reverse(ss, begin, end, limit) ==
    LET ks == Limit(Reverse(SortAsc(InRange(ss, begin, end))), limit)
    IN  [i \in 1..Len(ks) |-> [key |-> ks[i], value |-> ss[ks[i]]]]

\* get(key): the value when present.
IsPresent(ss, k) == k \in Present(ss)

----------------------------------------------------------------------------
(* Results *)

NoResult == [kind |-> "none"]
OkUnit == [kind |-> "ok"]
\* An error, tagged with the call it came from.
Err(what) == [kind |-> "err", error |-> what]

NoParams == [op |-> "none"]

\* read_chunked_value has not returned.
NoChunked == [variant |-> "unset"]

\* One backend call: the handle it was issued through, the method, the key
\* of a get, and whether the backend answered.
Call(handle, method, key, ok) ==
    [handle |-> handle, call |-> method, key |-> key, ok |-> ok]

----------------------------------------------------------------------------
(* Writers and the snapshot lifecycle *)

Idle == pc = "idle"

Locals == <<snap, params, iterVars, chunkVars, bm, io, result>>

\* A committed write of one key, between read operations.
WritePut(K, V) ==
    /\ Idle
    /\ \E k \in K, v \in V : store' = Put(store, k, v)
    /\ UNCHANGED <<pc, Locals>>

\* A committed delete of one key, between read operations.
WriteDelete(K) ==
    /\ Idle
    /\ \E k \in K \cap Present(store) : store' = Del(store, k)
    /\ UNCHANGED <<pc, Locals>>

\* snapshot_trx: current_timestamp() succeeded; the snapshot sees the state
\* committed at that timestamp.
snapshot_trx ==
    /\ pc = "snapshot_trx"
    /\ io' = Append(io, Call("trx_client", "current_timestamp", <<>>, TRUE))
    /\ snap' = store
    /\ pc' = params.op
    /\ UNCHANGED <<store, params, iterVars, chunkVars, bm, result>>

\* Variant of snapshot_trx_fail: a failed current_timestamp() is tried once
\* more before the error is returned.
snapshot_trx_fail_retry ==
    /\ pc = "snapshot_trx"
    /\ io' = Append(io, Call("trx_client", "current_timestamp", <<>>, FALSE))
    /\ IF io = <<>>
       THEN pc' = "snapshot_trx" /\ result' = result
       ELSE pc' = "done" /\ result' = Err("current_timestamp")
    /\ UNCHANGED <<store, snap, params, iterVars, chunkVars, bm>>

\* snapshot_trx: current_timestamp() failed; `?` returns the error to the caller
\* of the operation.
snapshot_trx_fail ==
    /\ pc = "snapshot_trx"
    /\ io' = Append(io, Call("trx_client", "current_timestamp", <<>>, FALSE))
    /\ result' = Err("current_timestamp")
    /\ pc' = "done"
    /\ UNCHANGED <<store, snap, params, iterVars, chunkVars, bm>>

\* The caller has taken the result; the operation's locals are dropped.
finish ==
    /\ pc = "done"
    /\ pc' = "idle"
    /\ snap' = NoStore
    /\ params' = NoParams
    /\ values' = <<>>
    /\ calls' = <<>>
    /\ rets' = <<>>
    /\ ckey' = <<>>
    /\ cbuf' = <<>>
    /\ gets' = <<>>
    /\ chunked' = NoChunked
    /\ bm' = {}
    /\ io' = <<>>
    /\ result' = NoResult
    /\ UNCHANGED store

Init ==
    /\ store = NoStore
    /\ snap = NoStore
    /\ pc = "idle"
    /\ params = NoParams
    /\ values = <<>>
    /\ calls = <<>>
    /\ rets = <<>>
    /\ ckey = <<>>
    /\ cbuf = <<>>
    /\ gets = <<>>
    /\ chunked = NoChunked
    /\ bm = {}
    /\ io = <<>>
    /\ result = NoResult

----------------------------------------------------------------------------
(* TikvStore::iterate *)

\* Serialized keys (subspace byte first) the iteration tests use; <<118>> is
\* the degenerate key that is empty once the subspace byte is stripped.
IterKeys == {<<118>>, <<118, 1>>, <<118, 1, 0>>, <<118, 2>>}

IterValues == {<<7>>, <<8, 9>>}

IterBegins == {<<118>>, <<118, 1>>}

IterEnds == {<<118, 2>>, <<119>>}

\* What one invocation of the caller's callback returns: Ok(true), Ok(false)
\* or Err.
CbReturns == {"true", "false", "err"}

\* key.get(1..).unwrap_or_default()
strip_subspace(key) ==
    IF Len(key) >= 1 THEN SubSeq(key, 2, Len(key)) ELSE <<>>

\* Variant of iterate_scan: the descending branch issues the ascending scan.
iterate_scan_same_direction(ss, p) ==
    IF ~p.first
    THEN scan(ss, p.begin, p.end, U32_MAX)
    ELSE scan(ss, p.begin, p.end, U32(1))

\* The scan iterate issues for its parameters.
iterate_scan(ss, p) ==
    IF ~p.first
    THEN IF p.ascending
         THEN scan(ss, p.begin, p.end, U32_MAX)
         ELSE scan_reverse(ss, p.begin, p.end, U32_MAX)
    ELSE scan(ss, p.begin, p.end, U32(1))

\* The scan method iterate calls for its parameters.
iterate_scan_method(p) ==
    IF ~p.first /\ ~p.ascending THEN "scan_reverse" ELSE "scan"

\* The two slices handed to the callback for one scanned entry.
cb_args(p, kv_pair) ==
    IF ~p.first
    THEN <<strip_subspace(kv_pair.key), kv_pair.value>>
    ELSE <<strip_subspace(kv_pair.key), kv_pair.key>>

\* Variant of cb_outcome: the callback's Err is dropped like its boolean.
cb_outcome_err_dropped(p, r) ==
    [pc |-> IF p.first THEN "iterate_end" ELSE "iterate_loop",
     result |-> NoResult]

\* `cb(..)?;`: an Err leaves iterate, the boolean of an Ok is dropped.
cb_outcome(p, r) ==
    IF r = "err"
    THEN [pc |-> "done", result |-> Err("callback")]
    ELSE [pc |-> IF p.first THEN "iterate_end" ELSE "iterate_loop",
          result |-> NoResult]

iterate_call ==
    /\ Idle
    /\ \E b \in IterBegins, e \in IterEnds, asc \in BOOLEAN, fst \in BOOLEAN :
         params' = [op |-> "iterate", begin |-> b, end |-> e,
                    ascending |-> asc, first |-> fst]
    /\ pc' = "snapshot_trx"
    /\ UNCHANGED <<io, store, snap, iterVars, chunkVars, bm, result>>

\* trx.scan / trx.scan_reverse returned the entries.
iterate_scanned ==
    /\ pc = "iterate"
    /\ io' = Append(io, Call("snapshot", iterate_scan_method(params), <<>>,
                              TRUE))
    /\ values' = iterate_scan(snap, params)
    /\ pc' = "iterate_loop"
    /\ UNCHANGED <<store, snap, params, calls, rets, chunkVars, bm, result>>

\* trx.scan / trx.scan_reverse failed.
iterate_scan_fail ==
    /\ pc = "iterate"
    /\ io' = Append(io, Call("snapshot", iterate_scan_method(params), <<>>,
                              FALSE))
    /\ result' = Err("scan")
    /\ pc' = "done"
    /\ UNCHANGED <<store, snap, params, iterVars, chunkVars, bm>>

\* values.next() is Some: the callback is invoked on the entry.
iterate_cb ==
    /\ pc = "iterate_loop"
    /\ values # <<>>
    /\ \E r \in CbReturns :
         LET o == cb_outcome(params, r) IN
         /\ calls' = Append(calls, cb_args(params, Head(values)))
         /\ rets' = Append(rets, r)
         /\ values' = Tail(values)
         /\ pc' = o.pc
         /\ result' = o.result
    /\ UNCHANGED <<io, store, snap, params, chunkVars, bm>>

\* values.next() is None, or the first-only branch is through: Ok(()).
iterate_return ==
    /\ \/ pc = "iterate_loop" /\ values = <<>>
       \/ pc = "iterate_end"
    /\ result' = OkUnit
    /\ pc' = "done"
    /\ UNCHANGED <<io, store, snap, params, iterVars, chunkVars, bm>>

NextIterate ==
    \/ WritePut(IterKeys, IterValues)
    \/ WriteDelete(IterKeys)
    \/ iterate_call
    \/ snapshot_trx
    \/ snapshot_trx_fail
    \/ iterate_scanned
    \/ iterate_scan_fail
    \/ iterate_cb
    \/ iterate_return
    \/ finish

SpecIterate == Init /\ [][NextIterate]_vars

----------------------------------------------------------------------------
(* Properties of iterate *)

Iterating == params.op = "iterate"

\* The keys of the range the running iterate was called on, as its snapshot
\* holds them.
IterRange == InRange(snap, params.begin, params.end)

\* The keys the callback was invoked on, in invocation order.
CallKeys == [i \in 1..Len(calls) |-> calls[i][1]]

\* C1: if the callback returns false on its N-th invocation, iterate invokes
\* the callback exactly N times in total and then returns success.
C1_EarlyStop ==
    Iterating =>
        \A n \in 1..Len(rets) :
            rets[n] = "false" =>
                /\ Len(calls) = n
                /\ pc = "done" => result = OkUnit

\* C2: with first=true the callback is invoked at most once, and on a
\* non-empty range the entry it is invoked on is the smallest key when
\* ascending and the largest key when descending.
C2_FirstOnly ==
    (Iterating /\ params.first) =>
        /\ Len(calls) <= 1
        /\ Len(calls) = 1 =>
             \E k \in IterRange :
                /\ calls[1][1] = strip_subspace(k)
                /\ \A o \in IterRange :
                     IF params.ascending THEN KeyLeq(k, o) ELSE KeyLeq(o, k)
        /\ (pc = "done" /\ result = OkUnit /\ IterRange # {}) => Len(calls) = 1

\* C3: with first=false and a callback that always continues, iterate visits
\* every key of [begin, end) exactly once, in strictly increasing byte order
\* when ascending and in strictly decreasing byte order when descending, so
\* both directions visit the same set of keys.
C3_IterationOrder ==
    (/\ Iterating
     /\ ~params.first
     /\ pc = "done"
     /\ result = OkUnit
     /\ \A i \in 1..Len(rets) : rets[i] = "true")
    =>
        /\ Range(CallKeys) = {strip_subspace(k) : k \in IterRange}
        /\ Len(calls) = Cardinality(IterRange)
        /\ \A i, j \in 1..Len(calls) :
             i < j => IF params.ascending
                      THEN KeyLess(CallKeys[i], CallKeys[j])
                      ELSE KeyLess(CallKeys[j], CallKeys[i])

\* A full descending pass over a range of at least three entries.
C3_Witness ==
    /\ Iterating
    /\ ~params.first
    /\ ~params.ascending
    /\ pc = "done"
    /\ result = OkUnit
    /\ Len(calls) >= 3
    /\ \A i \in 1..Len(rets) : rets[i] = "true"

\* C4: a callback error or a scan failure is what iterate returns, and no
\* callback invocation follows it; an empty range gives zero invocations and
\* a success result.
C4_ErrorAbort ==
    Iterating =>
        /\ \A i \in 1..Len(rets) :
             rets[i] = "err" =>
                /\ i = Len(calls)
                /\ pc = "done"
                /\ result = Err("callback")
        /\ result.kind = "err" => pc = "done"
        /\ result = Err("scan") => calls = <<>>
        /\ (/\ pc = "done"
            /\ IterRange = {}
            /\ result \notin {Err("scan"), Err("current_timestamp")})
           => (calls = <<>> /\ result = OkUnit)

\* The callback failed on its second invocation while entries were left.
C4_Witness ==
    /\ Iterating
    /\ pc = "done"
    /\ result = Err("callback")
    /\ Len(calls) = 2
    /\ values # <<>>

\* The scan failed on a range that holds entries.
C4_WitnessScan ==
    /\ Iterating
    /\ result = Err("scan")
    /\ InRange(store, params.begin, params.end) # {}

----------------------------------------------------------------------------
(* Chunked values: the stored layout *)

\* The backend's single-value size limit, scaled down.
MAX_VALUE_SIZE == 2

\* Serialized key (subspace byte first) of the value the reads are about.
ChunkBase == <<118, 5>>

\* base_key ++ [index]
ChunkKey(base, index) == base \o <<index>>

\* A payload of the given length whose bytes all differ from their neighbours.
Payload(len, seed) == [i \in 1..len |-> (seed + 3 * i) % 256]

PayloadLens ==
    {0, 1, MAX_VALUE_SIZE - 1, MAX_VALUE_SIZE, MAX_VALUE_SIZE + 1,
     2 * MAX_VALUE_SIZE, 3 * MAX_VALUE_SIZE + 7}

Payloads == {Payload(len, seed) : len \in PayloadLens, seed \in {10, 250}}

\* Number of non-empty slices that follow the first MAX_VALUE_SIZE bytes.
NSlices(P) ==
    (Len(P) - Min(Len(P), MAX_VALUE_SIZE) + MAX_VALUE_SIZE - 1)
        \div MAX_VALUE_SIZE

\* The slice stored under chunk index j.
Slice(P, j) ==
    SubSeq(P, (j + 1) * MAX_VALUE_SIZE + 1,
           Min(Len(P), (j + 2) * MAX_VALUE_SIZE))

\* A payload whose length is a positive multiple of MAX_VALUE_SIZE may end in
\* an empty slice, so that its last slice is shorter than MAX_VALUE_SIZE.
HasEmptyTail(P, tail) ==
    tail /\ Len(P) >= MAX_VALUE_SIZE /\ Len(P) % MAX_VALUE_SIZE = 0

\* Number of chunk keys of the layout; it fits the one-byte chunk count.
NChunkKeys(P, tail) == NSlices(P) + (IF HasEmptyTail(P, tail) THEN 1 ELSE 0)

\* The chunked layout of payload P under base: the first MAX_VALUE_SIZE bytes
\* under base, the following slices under base ++ [0], base ++ [1], ...
Layout(base, P, tail) ==
    LET D == {base} \cup {ChunkKey(base, j) : j \in 0..(NChunkKeys(P, tail) - 1)}
    IN  [k \in D |->
            IF k = base THEN SubSeq(P, 1, Min(Len(P), MAX_VALUE_SIZE))
            ELSE Slice(P, k[Len(k)])]

\* The write path stores a value in the chunked layout, replacing the old one.
WriteValue ==
    /\ Idle
    /\ \E P \in Payloads, tail \in BOOLEAN :
         /\ NChunkKeys(P, tail) <= 255
         /\ store' = Layout(ChunkBase, P, tail)
    /\ UNCHANGED <<pc, Locals>>

\* A store with a base value of MAX_VALUE_SIZE bytes and a full chunk under
\* every one of the 256 one-byte indices.
AllChunks(base) ==
    [k \in {base} \cup {ChunkKey(base, j) : j \in 0..255} |->
        Payload(MAX_VALUE_SIZE, 99)]

\* Writes leave chunk keys at all 256 indices.
WriteAllChunks ==
    /\ Idle
    /\ store' = AllChunks(ChunkBase)
    /\ UNCHANGED <<pc, Locals>>

\* Chunk keys and payloads of single writes that leave a store the layout
\* does not produce (a chunk after a short chunk, a gap, a dangling chunk).
RawChunkKeys == {ChunkKey(ChunkBase, j) : j \in 0..2}

RawChunkValues == {Payload(1, 77), Payload(MAX_VALUE_SIZE, 99)}

----------------------------------------------------------------------------
(* read_chunked_value_snapshot and TikvStore::get_value *)

Single(bytes) == [variant |-> "Single", bytes |-> bytes]
Chunked(n, bytes) == [variant |-> "Chunked", n_chunks |-> n, bytes |-> bytes]
ChunkedNone == [variant |-> "None"]

\* `+= 1` on a u8: the next value, and at 255 either 0 (wrapping build) or -1
\* for the panic of a build with overflow checks.
u8_add_one(b) == IF b < 255 THEN {b + 1} ELSE {0, -1}

\* The key with its last byte replaced.
with_last(key, b) == [key EXCEPT ![Len(key)] = b]

\* Variant of read_base: the size test is `<=`, so a value of exactly
\* MAX_VALUE_SIZE bytes is taken for a single value.
read_base_inclusive(ss, key) ==
    IF IsPresent(ss, key)
    THEN IF Len(ss[key]) <= MAX_VALUE_SIZE
         THEN [pc |-> "get_value_ret", chunked |-> Single(ss[key]),
               cbuf |-> <<>>, ckey |-> <<>>]
         ELSE [pc |-> "read_chunk", chunked |-> NoChunked,
               cbuf |-> ss[key], ckey |-> ChunkKey(key, 0)]
    ELSE [pc |-> "get_value_ret", chunked |-> ChunkedNone,
          cbuf |-> <<>>, ckey |-> <<>>]

\* The base fetch returned: absent is None, a value below MAX_VALUE_SIZE is
\* Single, anything else starts the accumulation at chunk index 0.
read_base(ss, key) ==
    IF IsPresent(ss, key)
    THEN IF Len(ss[key]) < MAX_VALUE_SIZE
         THEN [pc |-> "get_value_ret", chunked |-> Single(ss[key]),
               cbuf |-> <<>>, ckey |-> <<>>]
         ELSE [pc |-> "read_chunk", chunked |-> NoChunked,
               cbuf |-> ss[key], ckey |-> ChunkKey(key, 0)]
    ELSE [pc |-> "get_value_ret", chunked |-> ChunkedNone,
          cbuf |-> <<>>, ckey |-> <<>>]

\* Variant of read_chunk: a chunk below MAX_VALUE_SIZE ends the loop before
\* it is appended.
read_chunk_short_dropped(ss, key, value, next) ==
    IF IsPresent(ss, key) /\ Len(ss[key]) >= MAX_VALUE_SIZE
    THEN IF next = -1
         THEN [pc |-> "done", chunked |-> NoChunked, result |-> [kind |-> "panic"],
               cbuf |-> value \o ss[key], ckey |-> key]
         ELSE [pc |-> "read_chunk", chunked |-> NoChunked, result |-> NoResult,
               cbuf |-> value \o ss[key], ckey |-> with_last(key, next)]
    ELSE [pc |-> "get_value_ret", chunked |-> Chunked(key[Len(key)], value),
          result |-> NoResult, cbuf |-> value, ckey |-> key]

\* Variant of read_chunk: n_chunks is the index of the last chunk appended.
read_chunk_last_present(ss, key, value, next) ==
    IF IsPresent(ss, key)
    THEN IF next = -1
         THEN [pc |-> "done", chunked |-> NoChunked, result |-> [kind |-> "panic"],
               cbuf |-> value \o ss[key], ckey |-> key]
         ELSE [pc |-> "read_chunk", chunked |-> NoChunked, result |-> NoResult,
               cbuf |-> value \o ss[key], ckey |-> with_last(key, next)]
    ELSE [pc |-> "get_value_ret",
          chunked |-> Chunked(IF key[Len(key)] = 0 THEN 0
                              ELSE key[Len(key)] - 1, value),
          result |-> NoResult, cbuf |-> value, ckey |-> key]

\* One turn of the `while let Some(bytes) = ss.get(key)` loop, for the value
\* `next` the index byte takes: a present chunk is appended and the index
\* incremented, an absent chunk ends the loop.
read_chunk(ss, key, value, next) ==
    IF IsPresent(ss, key)
    THEN IF next = -1
         THEN [pc |-> "done", chunked |-> NoChunked, result |-> [kind |-> "panic"],
               cbuf |-> value \o ss[key], ckey |-> key]
         ELSE [pc |-> "read_chunk", chunked |-> NoChunked, result |-> NoResult,
               cbuf |-> value \o ss[key], ckey |-> with_last(key, next)]
    ELSE [pc |-> "get_value_ret", chunked |-> Chunked(key[Len(key)], value),
          result |-> NoResult, cbuf |-> value, ckey |-> key]

\* What get_value returns for a ChunkedValue, given whether U::deserialize
\* accepts the bytes.
get_value_result(cv, deserialized) ==
    IF cv.variant = "None"
    THEN [kind |-> "ok", some |-> FALSE, value |-> <<>>]
    ELSE IF deserialized
         THEN [kind |-> "ok", some |-> TRUE, value |-> cv.bytes]
         ELSE Err("deserialize")

get_value_call ==
    /\ Idle
    /\ params' = [op |-> "get_value", key |-> ChunkBase]
    /\ pc' = "snapshot_trx"
    /\ UNCHANGED <<io, store, snap, iterVars, chunkVars, bm, result>>

\* ss.get(key) of the base key returned.
get_value_base ==
    /\ pc = "get_value"
    /\ io' = Append(io, Call("snapshot", "get", params.key, TRUE))
    /\ LET o == read_base(snap, params.key) IN
         /\ gets' = Append(gets, params.key)
         /\ chunked' = o.chunked
         /\ cbuf' = o.cbuf
         /\ ckey' = o.ckey
         /\ pc' = o.pc
    /\ UNCHANGED <<store, snap, params, iterVars, bm, result>>

\* Number of gets after which the model stops following a reassembly.
MaxGets == 259

\* Variant of get_value_chunk: the chunk is fetched from the latest committed
\* state instead of through the snapshot.
get_value_chunk_latest ==
    /\ pc = "read_chunk"
    /\ Len(gets) < MaxGets
    /\ io' = Append(io, Call("snapshot", "get", ckey, TRUE))
    /\ \E next \in u8_add_one(ckey[Len(ckey)]) :
         LET o == read_chunk(store, ckey, cbuf, next) IN
         /\ gets' = Append(gets, ckey)
         /\ chunked' = o.chunked
         /\ cbuf' = o.cbuf
         /\ ckey' = o.ckey
         /\ pc' = o.pc
         /\ result' = o.result
    /\ UNCHANGED <<store, snap, params, iterVars, bm>>

\* ss.get(key) of a chunk key returned.
get_value_chunk ==
    /\ pc = "read_chunk"
    /\ Len(gets) < MaxGets
    /\ io' = Append(io, Call("snapshot", "get", ckey, TRUE))
    /\ \E next \in u8_add_one(ckey[Len(ckey)]) :
         LET o == read_chunk(snap, ckey, cbuf, next) IN
         /\ gets' = Append(gets, ckey)
         /\ chunked' = o.chunked
         /\ cbuf' = o.cbuf
         /\ ckey' = o.ckey
         /\ pc' = o.pc
         /\ result' = o.result
    /\ UNCHANGED <<store, snap, params, iterVars, bm>>

\* Variant of get_value_get_fail: a failed fetch counts as an absent key, so
\* the bytes accumulated so far are returned.
get_value_get_fail_partial ==
    /\ pc \in {"get_value", "read_chunk"}
    /\ io' = Append(io, Call("snapshot", "get",
                              IF pc = "get_value" THEN params.key ELSE ckey,
                              FALSE))
    /\ gets' = Append(gets, IF pc = "get_value" THEN params.key ELSE ckey)
    /\ chunked' = IF pc = "get_value" THEN ChunkedNone
                  ELSE Chunked(ckey[Len(ckey)], cbuf)
    /\ pc' = "get_value_ret"
    /\ UNCHANGED <<store, snap, params, iterVars, ckey, cbuf, bm, result>>

\* ss.get(key) failed, for the base key or a chunk key.
get_value_get_fail ==
    /\ pc \in {"get_value", "read_chunk"}
    /\ io' = Append(io, Call("snapshot", "get",
                              IF pc = "get_value" THEN params.key ELSE ckey,
                              FALSE))
    /\ gets' = Append(gets, IF pc = "get_value" THEN params.key ELSE ckey)
    /\ result' = Err("get")
    /\ pc' = "done"
    /\ UNCHANGED <<store, snap, params, iterVars, ckey, cbuf, chunked, bm>>

\* The match on the ChunkedValue.
get_value_return ==
    /\ pc = "get_value_ret"
    /\ \E deserialized \in BOOLEAN :
         result' = get_value_result(chunked, deserialized)
    /\ pc' = "done"
    /\ UNCHANGED <<io, store, snap, params, iterVars, chunkVars, bm>>

----------------------------------------------------------------------------
(* TikvStore::read_trx and read_chunked_value_transaction *)

\* The base fetch of read_chunked_value_transaction returned.
read_base_transaction(trx, key) ==
    IF IsPresent(trx, key)
    THEN IF Len(trx[key]) < MAX_VALUE_SIZE
         THEN [pc |-> "trx_ret", chunked |-> Single(trx[key]),
               cbuf |-> <<>>, ckey |-> <<>>]
         ELSE [pc |-> "trx_chunk", chunked |-> NoChunked,
               cbuf |-> trx[key], ckey |-> ChunkKey(key, 0)]
    ELSE [pc |-> "trx_ret", chunked |-> ChunkedNone,
          cbuf |-> <<>>, ckey |-> <<>>]

\* Variant of read_chunk_transaction: the index byte is not incremented, so
\* the same chunk key is fetched again.
read_chunk_transaction_same_key(trx, key, value, next) ==
    IF IsPresent(trx, key)
    THEN [pc |-> "trx_chunk", chunked |-> NoChunked, result |-> NoResult,
          cbuf |-> value \o trx[key], ckey |-> key]
    ELSE [pc |-> "trx_ret", chunked |-> Chunked(key[Len(key)], value),
          result |-> NoResult, cbuf |-> value, ckey |-> key]

\* One turn of the `while let Some(bytes) = trx.get(key)` loop of
\* read_chunked_value_transaction.
read_chunk_transaction(trx, key, value, next) ==
    IF IsPresent(trx, key)
    THEN IF next = -1
         THEN [pc |-> "done", chunked |-> NoChunked, result |-> [kind |-> "panic"],
               cbuf |-> value \o trx[key], ckey |-> key]
         ELSE [pc |-> "trx_chunk", chunked |-> NoChunked, result |-> NoResult,
               cbuf |-> value \o trx[key], ckey |-> with_last(key, next)]
    ELSE [pc |-> "trx_ret", chunked |-> Chunked(key[Len(key)], value),
          result |-> NoResult, cbuf |-> value, ckey |-> key]

read_trx_call ==
    /\ Idle
    /\ params' = [op |-> "read_trx"]
    /\ pc' = "read_trx"
    /\ UNCHANGED <<io, store, snap, iterVars, chunkVars, bm, result>>

\* begin_optimistic() succeeded: the transaction reads the state committed
\* at its start timestamp.
read_trx ==
    /\ pc = "read_trx"
    /\ io' = Append(io, Call("trx_client", "begin_optimistic", <<>>, TRUE))
    /\ snap' = store
    /\ result' = [kind |-> "ok", transaction |-> TRUE]
    /\ pc' = "done"
    /\ UNCHANGED <<store, params, iterVars, chunkVars, bm>>

\* begin_optimistic() failed.
read_trx_fail ==
    /\ pc = "read_trx"
    /\ io' = Append(io, Call("trx_client", "begin_optimistic", <<>>, FALSE))
    /\ result' = Err("begin_optimistic")
    /\ pc' = "done"
    /\ UNCHANGED <<store, snap, params, iterVars, chunkVars, bm>>

\* The holder of the transaction reads a chunked value through it.
read_chunked_value_transaction_call ==
    /\ pc = "done"
    /\ params.op = "read_trx"
    /\ result.kind = "ok"
    /\ params' = [op |-> "read_chunked_value_transaction", key |-> ChunkBase]
    /\ result' = NoResult
    /\ pc' = "trx_base"
    /\ UNCHANGED <<io, store, snap, iterVars, chunkVars, bm>>

\* trx.get(key) of the base key returned.
transaction_base ==
    /\ pc = "trx_base"
    /\ io' = Append(io, Call("transaction", "get", params.key, TRUE))
    /\ LET o == read_base_transaction(snap, params.key) IN
         /\ gets' = Append(gets, params.key)
         /\ chunked' = o.chunked
         /\ cbuf' = o.cbuf
         /\ ckey' = o.ckey
         /\ pc' = o.pc
    /\ UNCHANGED <<store, snap, params, iterVars, bm, result>>

\* trx.get(key) of a chunk key returned.
transaction_chunk ==
    /\ pc = "trx_chunk"
    /\ Len(gets) < MaxGets
    /\ io' = Append(io, Call("transaction", "get", ckey, TRUE))
    /\ \E next \in u8_add_one(ckey[Len(ckey)]) :
         LET o == read_chunk_transaction(snap, ckey, cbuf, next) IN
         /\ gets' = Append(gets, ckey)
         /\ chunked' = o.chunked
         /\ cbuf' = o.cbuf
         /\ ckey' = o.ckey
         /\ pc' = o.pc
         /\ result' = o.result
    /\ UNCHANGED <<store, snap, params, iterVars, bm>>

\* trx.get(key) failed, for the base key or a chunk key.
transaction_get_fail ==
    /\ pc \in {"trx_base", "trx_chunk"}
    /\ io' = Append(io, Call("transaction", "get",
                              IF pc = "trx_base" THEN params.key ELSE ckey,
                              FALSE))
    /\ gets' = Append(gets, IF pc = "trx_base" THEN params.key ELSE ckey)
    /\ result' = Err("get")
    /\ pc' = "done"
    /\ UNCHANGED <<store, snap, params, iterVars, ckey, cbuf, chunked, bm>>

\* read_chunked_value_transaction returns the ChunkedValue.
transaction_return ==
    /\ pc = "trx_ret"
    /\ result' = [kind |-> "ok", transaction |-> FALSE]
    /\ pc' = "done"
    /\ UNCHANGED <<io, store, snap, params, iterVars, chunkVars, bm>>

NextChunk ==
    \/ WriteValue
    \/ WriteAllChunks
    \/ WritePut(RawChunkKeys, RawChunkValues)
    \/ WriteDelete({ChunkBase} \cup RawChunkKeys)
    \/ get_value_call
    \/ snapshot_trx
    \/ snapshot_trx_fail
    \/ get_value_base
    \/ get_value_chunk
    \/ get_value_get_fail
    \/ get_value_return
    \/ read_trx_call
    \/ read_trx
    \/ read_trx_fail
    \/ read_chunked_value_transaction_call
    \/ transaction_base
    \/ transaction_chunk
    \/ transaction_get_fail
    \/ transaction_return
    \/ finish

SpecChunk == Init /\ [][NextChunk]_vars

----------------------------------------------------------------------------
(* Properties of the chunk reassembly *)

Reading == params.op = "get_value"

\* read_chunked_value has returned a ChunkedValue.
Returned == Reading /\ chunked.variant # "unset"

\* C5: when the snapshot holds the chunked layout of a payload, the bytes
\* read_chunked_value returns (Single or Chunked) are exactly the payload.
C5_RoundTrip ==
    Reading =>
        \A P \in Payloads, tail \in BOOLEAN :
            (NChunkKeys(P, tail) <= 255 /\ snap = Layout(ChunkBase, P, tail)) =>
                /\ result.kind # "panic"
                /\ chunked.variant # "None"
                /\ chunked.variant \in {"Single", "Chunked"} => chunked.bytes = P

\* A payload of 3 * MAX_VALUE_SIZE + 7 bytes was read back.
C5_Witness ==
    /\ Returned
    /\ chunked.variant = "Chunked"
    /\ Len(chunked.bytes) = 3 * MAX_VALUE_SIZE + 7
    /\ snap = Layout(ChunkBase, Payload(3 * MAX_VALUE_SIZE + 7, 10), FALSE)

\* The chunks the termination rule of C6 reads: from index j up to the first
\* short or absent chunk.
RECURSIVE UpToShort(_, _, _)
UpToShort(ss, base, j) ==
    IF j > 255 \/ ~IsPresent(ss, ChunkKey(base, j)) THEN <<>>
    ELSE IF Len(ss[ChunkKey(base, j)]) < MAX_VALUE_SIZE
         THEN ss[ChunkKey(base, j)]
         ELSE ss[ChunkKey(base, j)] \o UpToShort(ss, base, j + 1)

\* C6: the reader stops at the first chunk shorter than MAX_VALUE_SIZE, which
\* it appends, or at the first absent chunk key: no chunk key is fetched
\* after a short chunk was fetched, and no payload stored after a short chunk
\* is in the result.
C6_StopAtShortChunk ==
    Reading =>
        /\ \A i \in 2..Len(gets) :
             (IsPresent(snap, gets[i]) /\ Len(snap[gets[i]]) < MAX_VALUE_SIZE)
                => i = Len(gets)
        /\ chunked.variant = "Chunked" =>
             chunked.bytes = snap[params.key] \o UpToShort(snap, params.key, 0)

\* C7: read_chunked_value returns None exactly when the base key is absent,
\* Single with the stored bytes and no chunk fetch exactly when the base value
\* is shorter than MAX_VALUE_SIZE, and Chunked only when it is at least
\* MAX_VALUE_SIZE long; get_value turns None into an absent result.
C7_Classification ==
    Returned =>
        /\ chunked.variant = "None" <=> ~IsPresent(snap, params.key)
        /\ chunked.variant = "Single" <=>
             (IsPresent(snap, params.key)
                /\ Len(snap[params.key]) < MAX_VALUE_SIZE)
        /\ chunked.variant = "Single" =>
             (chunked.bytes = snap[params.key] /\ gets = <<params.key>>)
        /\ chunked.variant = "Chunked" =>
             (IsPresent(snap, params.key)
                /\ Len(snap[params.key]) >= MAX_VALUE_SIZE)
        /\ (pc = "done" /\ chunked.variant = "None") =>
             (result.kind = "ok" /\ ~result.some)

\* A base value of exactly MAX_VALUE_SIZE bytes came back as Chunked.
C7_Witness ==
    /\ Returned
    /\ pc = "done"
    /\ chunked.variant = "Chunked"
    /\ Len(snap[params.key]) = MAX_VALUE_SIZE
    /\ result.kind = "ok"

\* An absent base key came back from get_value as an absent result.
C7_WitnessNone ==
    /\ Returned
    /\ pc = "done"
    /\ chunked.variant = "None"
    /\ Present(snap) # {}

----------------------------------------------------------------------------
(* TikvStore::get_bitmap *)

\* The scan limit of get_bitmap, scaled down.
MAX_KEYS == 4

\* Width of the trailing document ID of a bitmap key.
U32_LEN == 4

\* to_be_bytes of a u32
be_u32(id) == <<id.hi \div 256, id.hi % 256, id.lo \div 256, id.lo % 256>>

\* deserialize_be_u32(offset): the u32 of the four bytes that follow the
\* offset.
deserialize_be_u32(bytes, offset) ==
    [hi |-> bytes[offset + 1] * 256 + bytes[offset + 2],
     lo |-> bytes[offset + 3] * 256 + bytes[offset + 4]]

\* Subspace byte and class fields all keys of the bitmap class start with.
BitmapClass == <<98, 1, 3>>

\* BitmapKey::serialize(WITH_SUBSPACE): the class, then the document ID in
\* big-endian order.
serialize_bitmap_key(class, document_id) == class \o be_u32(document_id)

\* Document IDs the presence keys are written for.
DocIds ==
    {U32(0), U32(1), U32(256), U32(65536), [hi |-> 65535, lo |-> 65534],
     U32_MAX}

PresenceKeys == {serialize_bitmap_key(BitmapClass, id) : id \in DocIds}

\* Keys of other lengths that share the class prefix and sort inside the
\* class's range.
ForeignKeys ==
    {BitmapClass \o <<0, 0, 1>>,
     serialize_bitmap_key(BitmapClass, U32(1)) \o <<0>>}

\* The loop over the scanned keys: the trailing document ID of every key of
\* the expected length.
bitmap_of(keys, key_len) ==
    {deserialize_be_u32(k, Len(k) - U32_LEN) :
        k \in {x \in Range(keys) : Len(x) = key_len}}

\* Variant of bitmap_result: the set is returned even when it is empty.
bitmap_result_always_some(set) == [kind |-> "ok", some |-> TRUE, value |-> set]

\* Ok(if !bm.is_empty() { Some(bm) } else { None })
bitmap_result(set) ==
    IF set # {}
    THEN [kind |-> "ok", some |-> TRUE, value |-> set]
    ELSE [kind |-> "ok", some |-> FALSE, value |-> {}]

\* begin is the key as passed (document ID 0), end the same key with document
\* ID u32::MAX.
get_bitmap_call ==
    /\ Idle
    /\ LET begin == serialize_bitmap_key(BitmapClass, U32(0))
           end == serialize_bitmap_key(BitmapClass, U32_MAX)
       IN  params' = [op |-> "get_bitmap", begin |-> begin, end |-> end,
                      key_len |-> Len(begin)]
    /\ pc' = "snapshot_trx"
    /\ UNCHANGED <<io, store, snap, iterVars, chunkVars, bm, result>>

\* trx.scan_keys returned: the keys are aggregated and the bitmap returned.
get_bitmap_scanned ==
    /\ pc = "get_bitmap"
    /\ io' = Append(io, Call("snapshot", "scan_keys", <<>>, TRUE))
    /\ LET keys == scan_keys(snap, params.begin, params.end, U32(MAX_KEYS))
       IN  /\ bm' = bitmap_of(keys, params.key_len)
           /\ result' = bitmap_result(bm')
    /\ pc' = "done"
    /\ UNCHANGED <<store, snap, params, iterVars, chunkVars>>

\* trx.scan_keys failed.
get_bitmap_scan_fail ==
    /\ pc = "get_bitmap"
    /\ io' = Append(io, Call("snapshot", "scan_keys", <<>>, FALSE))
    /\ result' = Err("scan")
    /\ pc' = "done"
    /\ UNCHANGED <<store, snap, params, iterVars, chunkVars, bm>>

NextBitmap ==
    \/ WritePut(PresenceKeys \cup ForeignKeys, {<<>>})
    \/ WriteDelete(PresenceKeys \cup ForeignKeys)
    \/ get_bitmap_call
    \/ snapshot_trx
    \/ snapshot_trx_fail
    \/ get_bitmap_scanned
    \/ get_bitmap_scan_fail
    \/ finish

SpecBitmap == Init /\ [][NextBitmap]_vars

----------------------------------------------------------------------------
(* Properties of get_bitmap *)

\* get_bitmap has returned a bitmap or None.
BitmapReturned == params.op = "get_bitmap" /\ pc = "done" /\ result.kind = "ok"

\* The document IDs whose presence key the snapshot holds.
StoredIds == {id \in DocIds : IsPresent(snap, serialize_bitmap_key(BitmapClass, id))}

\* C8: for every set S of document IDs stored as one presence key per ID,
\* get_bitmap returns exactly S (and None for the empty S).
C8_BitmapRoundTrip ==
    BitmapReturned =>
        /\ StoredIds # {} => (result.some /\ result.value = StoredIds)
        /\ StoredIds = {} => ~result.some

\* C9: of the keys in the scanned range, get_bitmap inserts the trailing
\* document ID of every key of the class's serialized length and of no key
\* of another length.
C9_KeyLengthFilter ==
    BitmapReturned =>
        bm = {deserialize_be_u32(k, Len(k) - U32_LEN) :
                k \in {x \in InRange(snap, params.begin, params.end) :
                         Len(x) = params.key_len}}

\* C10: get_bitmap never returns Some of an empty set; it returns None when no
\* key of the class's serialized length lies in the range, and Some exactly
\* when at least one document ID was aggregated.
C10_EmptyIsNone ==
    BitmapReturned =>
        /\ result.some => result.value # {}
        /\ result.some <=> bm # {}
        /\ result.some => result.value = bm
        /\ (\A k \in InRange(snap, params.begin, params.end) :
                Len(k) # params.key_len) => ~result.some

\* Only foreign keys lay in the range and get_bitmap returned None.
C10_Witness ==
    /\ BitmapReturned
    /\ ~result.some
    /\ InRange(snap, params.begin, params.end) # {}

\* C11: when the scanned range holds more keys than the scan's key limit,
\* get_bitmap does not return a result as if it were complete: the caller
\* gets a signal that the scan was truncated.
C11_NoSilentTruncation ==
    (/\ params.op = "get_bitmap"
     /\ pc = "done"
     /\ ~WithinLimit(Cardinality(InRange(snap, params.begin, params.end)),
                     U32(MAX_KEYS)))
    => result.kind # "ok"

----------------------------------------------------------------------------
(* TikvStore::get_counter *)

\* An i64 as its signed high 32 bits and the two 16-bit halves of its low
\* 32 bits: the value is hi * 2^32 + lo.hi * 65536 + lo.lo.
I64(n) ==
    [hi |-> IF n < 0 THEN -1 ELSE 0,
     lo |-> [hi |-> (n \div 65536) % 65536, lo |-> n % 65536]]

\* i64::to_le_bytes, as the write path stores a counter.
i64_to_le_bytes(v) ==
    LET hl == v.hi % 65536
        hh == (v.hi \div 65536) % 65536
    IN  <<v.lo.lo % 256, v.lo.lo \div 256, v.lo.hi % 256, v.lo.hi \div 256,
          hl % 256, hl \div 256, hh % 256, hh \div 256>>

\* i64::from_le_bytes of eight bytes.
i64_from_le_bytes(b) ==
    [hi |-> b[5] + 256 * b[6] + 65536 * b[7]
              + 16777216 * (IF b[8] >= 128 THEN b[8] - 256 ELSE b[8]),
     lo |-> [hi |-> b[3] + 256 * b[4], lo |-> b[1] + 256 * b[2]]]

\* deserialize_i64_le: the little-endian i64 of exactly eight bytes, a
\* Deserialization error for any other length.
deserialize_i64_le(key, bytes) ==
    IF Len(bytes) = 8
    THEN [kind |-> "ok", value |-> i64_from_le_bytes(bytes)]
    ELSE Err("deserialization")

\* Serialized counter keys.
CounterKeys == {<<99, 9>>, <<99, 10>>}

\* Numbers the write path stores as counters.
CounterNumbers == {-5, 0, 1, 300, -70000}

\* Stored counter bytes: eight-byte counters and payloads of a wrong length.
CounterValues ==
    {i64_to_le_bytes(I64(n)) : n \in CounterNumbers}
        \cup {<<>>, <<251, 255, 255>>, <<1, 0, 0, 0, 0, 0, 0, 0, 0>>}

\* Variant of get_counter_result: bytes that do not decode count as zero.
get_counter_result_lenient(ss, key) ==
    IF IsPresent(ss, key) /\ Len(ss[key]) = 8
    THEN deserialize_i64_le(key, ss[key])
    ELSE [kind |-> "ok", value |-> I64(0)]

\* The `if let Some(bytes)` on the fetched value: decode it, or Ok(0) when the
\* key is absent.
get_counter_result(ss, key) ==
    IF IsPresent(ss, key)
    THEN deserialize_i64_le(key, ss[key])
    ELSE [kind |-> "ok", value |-> I64(0)]

\* get_counter serializes the key; it acquires no snapshot.
get_counter_call ==
    /\ Idle
    /\ \E k \in CounterKeys : params' = [op |-> "get_counter", key |-> k]
    /\ pc' = "get_counter"
    /\ UNCHANGED <<io, store, snap, iterVars, chunkVars, bm, result>>

\* raw_client.get(key) returned: the raw client reads the latest state.
get_counter_get ==
    /\ pc = "get_counter"
    /\ io' = Append(io, Call("raw_client", "get", params.key, TRUE))
    /\ result' = get_counter_result(store, params.key)
    /\ pc' = "done"
    /\ UNCHANGED <<store, snap, params, iterVars, chunkVars, bm>>

\* raw_client.get(key) failed.
get_counter_get_fail ==
    /\ pc = "get_counter"
    /\ io' = Append(io, Call("raw_client", "get", params.key, FALSE))
    /\ result' = Err("get")
    /\ pc' = "done"
    /\ UNCHANGED <<store, snap, params, iterVars, chunkVars, bm>>

NextCounter ==
    \/ WritePut(CounterKeys, CounterValues)
    \/ WriteDelete(CounterKeys)
    \/ get_counter_call
    \/ get_counter_get
    \/ get_counter_get_fail
    \/ finish

SpecCounter == Init /\ [][NextCounter]_vars

----------------------------------------------------------------------------
(* Properties of get_counter *)

\* get_counter has returned.
CounterReturned == params.op = "get_counter" /\ pc = "done"

\* C14: get_counter returns 0 for an absent key, the little-endian i64 of a
\* stored value of exactly eight bytes (-5 for the bytes of -5), a
\* Deserialization error and no number for any other stored length, and an
\* error, never 0, when the backend call fails.
C14_CounterRead ==
    CounterReturned =>
        IF ~io[Len(io)].ok
        THEN result.kind = "err"
        ELSE /\ ~IsPresent(store, params.key) =>
                  result = [kind |-> "ok", value |-> I64(0)]
             /\ \A n \in CounterNumbers :
                  (/\ IsPresent(store, params.key)
                   /\ store[params.key] = i64_to_le_bytes(I64(n)))
                  => result = [kind |-> "ok", value |-> I64(n)]
             /\ (IsPresent(store, params.key) /\ Len(store[params.key]) = 8) =>
                  (/\ result.kind = "ok"
                   /\ i64_to_le_bytes(result.value) = store[params.key])
             /\ (IsPresent(store, params.key) /\ Len(store[params.key]) # 8) =>
                  result = Err("deserialization")

\* The bytes of -5 were stored and get_counter returned -5.
C14_Witness ==
    /\ CounterReturned
    /\ IsPresent(store, params.key)
    /\ store[params.key] = <<251, 255, 255, 255, 255, 255, 255, 255>>
    /\ result = [kind |-> "ok", value |-> [hi |-> -1,
                                            lo |-> [hi |-> 65535, lo |-> 65531]]]

\* A stored value of three bytes made get_counter fail.
C14_WitnessShort ==
    /\ CounterReturned
    /\ IsPresent(store, params.key)
    /\ Len(store[params.key]) = 3
    /\ result = Err("deserialization")

----------------------------------------------------------------------------
(* Further properties of the chunk reassembly and of iterate *)

\* C15: when a get of the reassembly fails (the base fetch or a chunk
\* fetch), no further get is issued and get_value returns the storage error:
\* no ChunkedValue is returned and none of the accumulated bytes.
C15_NoPartialResult ==
    Reading =>
        \A i \in 1..Len(io) :
            (io[i].call = "get" /\ ~io[i].ok) =>
                /\ i = Len(io)
                /\ pc = "done"
                /\ result = Err("get")
                /\ chunked = NoChunked

\* The fetch of a chunk key failed after bytes had been accumulated.
C15_Witness ==
    /\ Reading
    /\ result = Err("get")
    /\ Len(gets) >= 3
    /\ Len(cbuf) > MAX_VALUE_SIZE

\* C18: in every mode of iterate each callback invocation receives one entry
\* of the range: the key without its leading subspace byte and the value
\* stored under that key.
C18_CallbackArgs ==
    Iterating =>
        \A i \in 1..Len(calls) :
            \E k \in IterRange : calls[i] = <<strip_subspace(k), snap[k]>>

\* C19: n_chunks of a Chunked result is the trailing index byte of the last
\* chunk key fetched; the indices fetched start at 0 and increase by 1, so it
\* is 0 when the base value has no chunk key, and it lies in 0..255.
C19_ChunkCount ==
    (Reading /\ chunked.variant = "Chunked") =>
        /\ chunked.n_chunks \in 0..255
        /\ Len(gets) >= 2
        /\ chunked.n_chunks = gets[Len(gets)][Len(gets[Len(gets)])]
        /\ \A i \in 2..Len(gets) : gets[i] = ChunkKey(params.key, i - 2)
        /\ ~IsPresent(snap, ChunkKey(params.key, 0)) => chunked.n_chunks = 0

\* Three chunks were appended and n_chunks is 3.
C19_Witness ==
    /\ Reading
    /\ chunked.variant = "Chunked"
    /\ chunked.n_chunks = 3
    /\ Len(gets) = 5

\* A base value of exactly MAX_VALUE_SIZE bytes without chunk keys gave 0.
C19_WitnessZero ==
    /\ Reading
    /\ chunked.variant = "Chunked"
    /\ Len(chunked.bytes) = MAX_VALUE_SIZE
    /\ chunked.n_chunks = 0

\* C20: for every backend state the reassembly finishes after at most 257
\* gets with a result or an error: the one-byte chunk index is never
\* incremented past 255, neither overflowing nor wrapping back to index 0.
C20_Terminates ==
    Reading =>
        /\ Len(gets) <= 257
        /\ result.kind # "panic"
        /\ \A i \in 2..Len(gets) : gets[i] = ChunkKey(params.key, i - 2)

\* The position of read_chunked_value_transaction that corresponds to a
\* position of read_chunked_value_snapshot.
TransactionPc(p) ==
    CASE p = "read_chunk" -> "trx_chunk"
      [] p = "get_value_ret" -> "trx_ret"
      [] OTHER -> p

\* C17: over the same backend state read_chunked_value_transaction does what
\* read_chunked_value_snapshot does: every get it issues, and what it makes
\* of the answer, is the step the snapshot variant takes from the same
\* position, so both issue the same get keys and return the same
\* ChunkedValue.
C17_SourceIndependent ==
    [][(pc \in {"trx_base", "trx_chunk"} /\ Len(io') = Len(io) + 1) =>
          /\ gets' = Append(gets, io'[Len(io')].key)
          /\ IF ~io'[Len(io')].ok
             THEN /\ result' = Err("get")
                  /\ pc' = "done"
                  /\ chunked' = NoChunked
             ELSE IF pc = "trx_base"
                  THEN LET o == read_base(snap, params.key) IN
                       /\ io'[Len(io')].key = params.key
                       /\ chunked' = o.chunked
                       /\ cbuf' = o.cbuf
                       /\ ckey' = o.ckey
                       /\ pc' = TransactionPc(o.pc)
                  ELSE \E next \in u8_add_one(ckey[Len(ckey)]) :
                       LET o == read_chunk(snap, ckey, cbuf, next) IN
                       /\ io'[Len(io')].key = ckey
                       /\ chunked' = o.chunked
                       /\ cbuf' = o.cbuf
                       /\ ckey' = o.ckey
                       /\ pc' = TransactionPc(o.pc)
                       /\ result' = o.result
      ]_vars

\* The transaction variant returned a value of three chunks.
C17_Witness ==
    /\ params.op = "read_chunked_value_transaction"
    /\ pc = "done"
    /\ chunked.variant = "Chunked"
    /\ chunked.n_chunks = 3
    /\ Len(gets) = 5

----------------------------------------------------------------------------
(* The read operations next to a writer that commits at any time *)

\* Document IDs whose presence keys the concurrent writer sets and clears.
ConcurrentDocIds == {U32(0), U32(1), U32(256)}

\* The keys the concurrent writer commits to, by the operation that reads
\* them, with the values it stores.
ConcurrentFamilies ==
    {[op |-> "get_value",
      keys |-> {ChunkBase, ChunkKey(ChunkBase, 0), ChunkKey(ChunkBase, 1)},
      values |-> RawChunkValues],
     [op |-> "get_bitmap",
      keys |-> {serialize_bitmap_key(BitmapClass, id) : id \in ConcurrentDocIds}
                  \cup {BitmapClass \o <<0, 0, 1>>},
      values |-> {<<>>}],
     [op |-> "iterate",
      keys |-> {<<118>>, <<118, 1>>},
      values |-> IterValues],
     [op |-> "get_counter",
      keys |-> CounterKeys,
      values |-> {i64_to_le_bytes(I64(300)), <<251, 255, 255>>}]}

\* A write of one key commits, between operations or between two round trips
\* of the operation that reads the key.
ConcurrentPut ==
    /\ \E f \in ConcurrentFamilies :
         /\ Idle \/ params.op = f.op
         /\ Present(store) \subseteq f.keys
         /\ \E k \in f.keys, v \in f.values : store' = Put(store, k, v)
    /\ UNCHANGED <<pc, Locals>>

\* A delete of one key commits, between operations or between two round
\* trips of the operation that reads the key.
ConcurrentDelete ==
    /\ \E f \in ConcurrentFamilies :
         /\ Idle \/ params.op = f.op
         /\ \E k \in f.keys \cap Present(store) : store' = Del(store, k)
    /\ UNCHANGED <<pc, Locals>>

NextConcurrent ==
    \/ ConcurrentPut
    \/ ConcurrentDelete
    \/ get_value_call
    \/ get_bitmap_call
    \/ iterate_call
    \/ get_counter_call
    \/ read_trx_call
    \/ snapshot_trx
    \/ snapshot_trx_fail
    \/ get_value_base
    \/ get_value_chunk
    \/ get_value_get_fail
    \/ get_value_return
    \/ get_bitmap_scanned
    \/ get_bitmap_scan_fail
    \/ iterate_scanned
    \/ iterate_scan_fail
    \/ iterate_cb
    \/ iterate_return
    \/ get_counter_get
    \/ get_counter_get_fail
    \/ read_trx
    \/ read_trx_fail
    \/ finish

SpecConcurrent == Init /\ [][NextConcurrent]_vars

\* The bytes of the chunk keys of indices below n, in index order.
RECURSIVE ChunksBelow(_, _, _)
ChunksBelow(ss, base, n) ==
    IF n = 0 THEN <<>>
    ELSE ChunksBelow(ss, base, n - 1) \o ss[ChunkKey(base, n - 1)]

\* C12: whatever a writer commits while a get_value, get_bitmap or iterate
\* call is under way, everything the call has read and what it returns is
\* taken from the state at its snapshot acquisition: the buffer of the
\* reassembly and the ChunkedValue are those of the snapshot state, the
\* bitmap holds the IDs present in the snapshot state, and the callback gets
\* the entries of the snapshot state, all of them when the full scan ends.
C12_SnapshotConsistency ==
    /\ (Reading /\ pc = "read_chunk") =>
          LET n == ckey[Len(ckey)] IN
          /\ \A j \in 0..(n - 1) : IsPresent(snap, ChunkKey(params.key, j))
          /\ cbuf = snap[params.key] \o ChunksBelow(snap, params.key, n)
    /\ Returned =>
          /\ chunked.variant = "None" <=> ~IsPresent(snap, params.key)
          /\ chunked.variant = "Single" => chunked.bytes = snap[params.key]
          /\ chunked.variant = "Chunked" =>
                /\ \A j \in 0..(chunked.n_chunks - 1) :
                      IsPresent(snap, ChunkKey(params.key, j))
                /\ ~IsPresent(snap, ChunkKey(params.key, chunked.n_chunks))
                /\ chunked.bytes =
                      snap[params.key]
                          \o ChunksBelow(snap, params.key, chunked.n_chunks)
    /\ BitmapReturned =>
          /\ result.value =
                {id \in ConcurrentDocIds :
                    IsPresent(snap, serialize_bitmap_key(BitmapClass, id))}
          /\ result.some <=> result.value # {}
    /\ Iterating =>
          /\ \A i \in 1..Len(calls) :
                \E k \in IterRange :
                    /\ calls[i][1] = strip_subspace(k)
                    /\ ~params.first => calls[i][2] = snap[k]
          /\ (result = OkUnit /\ ~params.first) =>
                Range(CallKeys) = {strip_subspace(k) : k \in IterRange}

\* A reassembly returned two chunks of the snapshot state although the
\* writer had by then rewritten or deleted the base key and both chunk keys.
C12_Witness ==
    /\ Returned
    /\ pc = "get_value_ret"
    /\ chunked.variant = "Chunked"
    /\ chunked.n_chunks = 2
    /\ \A k \in {params.key, ChunkKey(params.key, 0), ChunkKey(params.key, 1)} :
          ~IsPresent(store, k) \/ store[k] # snap[k]

\* A bitmap of two IDs was returned although the writer had by then deleted
\* both presence keys.
C12_WitnessBitmap ==
    /\ BitmapReturned
    /\ Cardinality(result.value) = 2
    /\ \A id \in result.value :
          ~IsPresent(store, serialize_bitmap_key(BitmapClass, id))

\* C13: each of get_value, get_bitmap, iterate and get_counter acquires a
\* snapshot before its first backend read and issues every get and scan
\* through that snapshot.
C13_SnapshotFirst ==
    params.op \in {"get_value", "get_bitmap", "iterate", "get_counter"} =>
        \A i \in 1..Len(io) :
            io[i].call \in {"get", "scan", "scan_reverse", "scan_keys"} =>
                /\ io[i].handle = "snapshot"
                /\ \E j \in 1..(i - 1) :
                      io[j].call = "current_timestamp" /\ io[j].ok

\* Positions of io that hold an acquisition attempt.
Acquisitions ==
    {i \in 1..Len(io) : io[i].call \in {"current_timestamp", "begin_optimistic"}}

\* C16: an operation makes one acquisition attempt, as its first backend
\* call; when current_timestamp fails, get_value, get_bitmap and iterate
\* return that error with no snapshot opened, no get or scan issued and no
\* callback invoked; when begin_optimistic fails, read_trx returns that error.
C16_NoRetry ==
    /\ Acquisitions \subseteq {1}
    /\ \A i \in Acquisitions :
          ~io[i].ok =>
             /\ Len(io) = 1
             /\ pc = "done"
             /\ snap = NoStore
             /\ gets = <<>>
             /\ calls = <<>>
             /\ bm = {}
             /\ result = Err(io[i].call)
             /\ io[i].call = "current_timestamp" <=>
                   params.op \in {"get_value", "get_bitmap", "iterate"}
             /\ io[i].call = "begin_optimistic" <=> params.op = "read_trx"
    /\ (params.op = "read_trx" /\ pc = "done") =>
          (Len(io) = 1 /\ io[1].call = "begin_optimistic")

\* iterate returned the error of a failed current_timestamp.
C16_Witness ==
    /\ Iterating
    /\ pc = "done"
    /\ result = Err("current_timestamp")
    /\ Present(store) # {}

\* read_trx returned the error of a failed begin_optimistic.
C16_WitnessTrx ==
    /\ params.op = "read_trx"
    /\ pc = "done"
    /\ result = Err("begin_optimistic")

============================================================================
